---- MODULE Spec2Model ----
(***************************************************************************)
(* Model of pkg/oc/cli/cmd/create/identity.go: the "create identity"       *)
(* command.  A Go string that the code inspects character by character     *)
(* (the positional argument, ProviderName, ProviderUserName) is a sequence *)
(* of one-character strings; the output format, which the code only        *)
(* compares with "name" and with the empty string, is a TLA+ string.       *)
(***************************************************************************)
EXTENDS Integers, Sequences, FiniteSets, TLC

\* ---------------------------------------------------------------- bounds
MaxLen == 5          \* longest single positional argument
MaxArgs == 2         \* longest positional argument list
MaxShortLen == 1     \* longest string in a multi-argument list or a directly built option

Chars == {"p", "u", ":"}
OutputFormats == {"", "name", "json", "yaml"}

StringsUpTo(n) == UNION {[1..k -> Chars] : k \in 0..n}

ArgLists ==
    UNION {[1..n -> StringsUpTo(IF n = 1 THEN MaxLen ELSE MaxShortLen)] : n \in 0..MaxArgs}

\* ---------------------------------------------------------------- errors
NilErr == [msg |-> "<nil>", args |-> <<>>]
Err(m) == [msg |-> m, args |-> <<>>]

ErrFormat == Err("identity name in the format <PROVIDER_NAME>:<PROVIDER_USER_NAME> is required")
ErrTooMany(as) == [msg |-> "exactly one argument (username) is supported, not: %v", args |-> as]
ErrClientConfig == Err("ClientConfig failed")
ErrNewForConfig == Err("NewForConfig failed")
ErrProviderName == Err("provider name is required")
ErrProviderUserName == Err("provider user name is required")
ErrIdentityClient == Err("IdentityClient is required")
ErrOut == Err("Out is required")
ErrPrinter == Err("Printer is required")
CreateErrors == {Err("identities already exists"), Err("identities is forbidden")}
ErrPrint == Err("printer failed")

\* ------------------------------------------------------- strings.Split
RECURSIVE IndexFrom(_, _)
\* smallest i >= from with s[i] = ":", or 0 when there is none
IndexFrom(s, from) ==
    IF from > Len(s) THEN 0
    ELSE IF s[from] = ":" THEN from
    ELSE IndexFrom(s, from + 1)

\* a splitter that stops after the second part
SplitN2(s) ==
    LET i == IndexFrom(s, 1) IN
    IF i = 0 THEN <<s>>
    ELSE <<SubSeq(s, 1, i - 1), SubSeq(s, i + 1, Len(s))>>

RECURSIVE Split(_)
\* strings.Split(s, ":"): cut at every separator; no separator gives <<s>>
Split(s) ==
    LET i == IndexFrom(s, 1) IN
    IF i = 0 THEN <<s>>
    ELSE <<SubSeq(s, 1, i - 1)>> \o Split(SubSeq(s, i + 1, Len(s)))

\* ------------------------------------------------------------- options
\* o := &CreateIdentityOptions{Out: out}
NewOptions(out) ==
    [ProviderName |-> <<>>, ProviderUserName |-> <<>>, IdentityClient |-> "nil",
     DryRun |-> FALSE, OutputFormat |-> "", Out |-> out, Printer |-> "nil"]

\* identity := &userapi.Identity{} with the two option fields copied in
LocalIdentity(opt) ==
    [ProviderName |-> opt.ProviderName, ProviderUserName |-> opt.ProviderUserName, UID |-> ""]

\* what IdentityClient.Create may answer: an error, or the stored object,
\* which carries server-assigned metadata the local one lacks
CreateOutcomes(identity) ==
    {[err |-> e, obj |-> identity] : e \in CreateErrors}
    \cup {[err |-> NilErr, obj |-> [identity EXCEPT !.UID = u]] : u \in {"uid-1", "uid-2"}}

PrinterOutcomes == {NilErr, ErrPrint}

\* -------------------------------------------------------------- Complete
\* parts swapped
Complete_swap(opt, as, dry, output, cfg) ==
    IF Len(as) = 0 THEN [o |-> opt, err |-> ErrFormat]
    ELSE IF Len(as) # 1 THEN [o |-> opt, err |-> ErrTooMany(as)]
    ELSE LET parts == Split(as[1]) IN
         IF Len(parts) # 2 THEN [o |-> opt, err |-> ErrFormat]
         ELSE LET o1 == [opt EXCEPT !.ProviderName = parts[2],
                                    !.ProviderUserName = parts[1],
                                    !.DryRun = dry] IN
              IF cfg = "configErr" THEN [o |-> o1, err |-> ErrClientConfig]
              ELSE IF cfg = "clientErr" THEN [o |-> o1, err |-> ErrNewForConfig]
              ELSE [o |-> [o1 EXCEPT !.IdentityClient = "client",
                                     !.OutputFormat = output,
                                     !.Printer = "printer"],
                    err |-> NilErr]

\* only the zero-argument case is rejected; the first argument is parsed
Complete_first(opt, as, dry, output, cfg) ==
    IF Len(as) = 0 THEN [o |-> opt, err |-> ErrFormat]
    ELSE LET parts == Split(as[1]) IN
         IF Len(parts) # 2 THEN [o |-> opt, err |-> ErrFormat]
         ELSE LET o1 == [opt EXCEPT !.ProviderName = parts[1],
                                    !.ProviderUserName = parts[2],
                                    !.DryRun = dry] IN
              IF cfg = "configErr" THEN [o |-> o1, err |-> ErrClientConfig]
              ELSE IF cfg = "clientErr" THEN [o |-> o1, err |-> ErrNewForConfig]
              ELSE [o |-> [o1 EXCEPT !.IdentityClient = "client",
                                     !.OutputFormat = output,
                                     !.Printer = "printer"],
                    err |-> NilErr]

\* rejects an empty side at parse time
Complete_strict(opt, as, dry, output, cfg) ==
    IF Len(as) = 0 THEN [o |-> opt, err |-> ErrFormat]
    ELSE IF Len(as) # 1 THEN [o |-> opt, err |-> ErrTooMany(as)]
    ELSE LET parts == Split(as[1]) IN
         IF Len(parts) # 2 \/ Len(parts[1]) = 0 \/ Len(parts[2]) = 0
         THEN [o |-> opt, err |-> ErrFormat]
         ELSE LET o1 == [opt EXCEPT !.ProviderName = parts[1],
                                    !.ProviderUserName = parts[2],
                                    !.DryRun = dry] IN
              IF cfg = "configErr" THEN [o |-> o1, err |-> ErrClientConfig]
              ELSE IF cfg = "clientErr" THEN [o |-> o1, err |-> ErrNewForConfig]
              ELSE [o |-> [o1 EXCEPT !.IdentityClient = "client",
                                     !.OutputFormat = output,
                                     !.Printer = "printer"],
                    err |-> NilErr]

\* (o *CreateIdentityOptions) Complete(cmd, f, args): the options afterwards
\* and the error returned.  dry and output are the command's flag values,
\* cfg is how f.ClientConfig() and NewForConfig answer.
Complete(opt, as, dry, output, cfg) ==
    IF Len(as) = 0 THEN [o |-> opt, err |-> ErrFormat]
    ELSE IF Len(as) # 1 THEN [o |-> opt, err |-> ErrTooMany(as)]
    ELSE LET parts == Split(as[1]) IN
         IF Len(parts) # 2 THEN [o |-> opt, err |-> ErrFormat]
         ELSE LET o1 == [opt EXCEPT !.ProviderName = parts[1],
                                    !.ProviderUserName = parts[2],
                                    !.DryRun = dry] IN
              IF cfg = "configErr" THEN [o |-> o1, err |-> ErrClientConfig]
              ELSE IF cfg = "clientErr" THEN [o |-> o1, err |-> ErrNewForConfig]
              ELSE [o |-> [o1 EXCEPT !.IdentityClient = "client",
                                     !.OutputFormat = output,
                                     !.Printer = "printer"],
                    err |-> NilErr]

\* -------------------------------------------------------------- Validate
\* the Out check left out
Validate_noout(opt) ==
    IF Len(opt.ProviderName) = 0 THEN [o |-> opt, err |-> ErrProviderName]
    ELSE IF Len(opt.ProviderUserName) = 0 THEN [o |-> opt, err |-> ErrProviderUserName]
    ELSE IF opt.IdentityClient = "nil" THEN [o |-> opt, err |-> ErrIdentityClient]
    ELSE IF opt.Printer = "nil" THEN [o |-> opt, err |-> ErrPrinter]
    ELSE [o |-> opt, err |-> NilErr]

\* (o *CreateIdentityOptions) Validate()
Validate(opt) ==
    IF Len(opt.ProviderName) = 0 THEN [o |-> opt, err |-> ErrProviderName]
    ELSE IF Len(opt.ProviderUserName) = 0 THEN [o |-> opt, err |-> ErrProviderUserName]
    ELSE IF opt.IdentityClient = "nil" THEN [o |-> opt, err |-> ErrIdentityClient]
    ELSE IF opt.Out = "nil" THEN [o |-> opt, err |-> ErrOut]
    ELSE IF opt.Printer = "nil" THEN [o |-> opt, err |-> ErrPrinter]
    ELSE [o |-> opt, err |-> NilErr]

\* ------------------------------------------------------------------- Run
SuccessCall(short, opt, obj) ==
    [short |-> short, out |-> opt.Out, obj |-> obj, dryRun |-> opt.DryRun, verb |-> "created"]

PrinterCall(opt, obj) == [obj |-> obj, out |-> opt.Out]

\* prints the locally built identity instead of the one Create returned
Run_local(opt, co, po) ==
    LET identity == LocalIdentity(opt)
        called == IF opt.DryRun THEN <<>> ELSE <<identity>>
        useShortOutput == opt.OutputFormat = "name"
    IN  IF ~opt.DryRun /\ co.err # NilErr
        THEN [err |-> co.err, create |-> called, success |-> <<>>, printer |-> <<>>]
        ELSE IF useShortOutput \/ opt.OutputFormat = ""
        THEN [err |-> NilErr, create |-> called,
              success |-> <<SuccessCall(useShortOutput, opt, identity)>>, printer |-> <<>>]
        ELSE [err |-> po, create |-> called, success |-> <<>>,
              printer |-> <<PrinterCall(opt, identity)>>]

\* the dry-run flag is not consulted before calling Create
Run_nodry(opt, co, po) ==
    LET identity == LocalIdentity(opt)
        actualIdentity == co.obj
        called == <<identity>>
        useShortOutput == opt.OutputFormat = "name"
    IN  IF co.err # NilErr
        THEN [err |-> co.err, create |-> called, success |-> <<>>, printer |-> <<>>]
        ELSE IF useShortOutput \/ opt.OutputFormat = ""
        THEN [err |-> NilErr, create |-> called,
              success |-> <<SuccessCall(useShortOutput, opt, actualIdentity)>>,
              printer |-> <<>>]
        ELSE [err |-> po, create |-> called, success |-> <<>>,
              printer |-> <<PrinterCall(opt, actualIdentity)>>]

\* the short branch falls through to the printer
Run_fallthrough(opt, co, po) ==
    LET identity == LocalIdentity(opt)
        actualIdentity == IF opt.DryRun THEN identity ELSE co.obj
        called == IF opt.DryRun THEN <<>> ELSE <<identity>>
        useShortOutput == opt.OutputFormat = "name"
    IN  IF ~opt.DryRun /\ co.err # NilErr
        THEN [err |-> co.err, create |-> called, success |-> <<>>, printer |-> <<>>]
        ELSE [err |-> po, create |-> called,
              success |-> IF useShortOutput \/ opt.OutputFormat = ""
                          THEN <<SuccessCall(useShortOutput, opt, actualIdentity)>>
                          ELSE <<>>,
              printer |-> <<PrinterCall(opt, actualIdentity)>>]

\* the branch condition itself is passed as the short-output flag
Run_shortcond(opt, co, po) ==
    LET identity == LocalIdentity(opt)
        actualIdentity == IF opt.DryRun THEN identity ELSE co.obj
        called == IF opt.DryRun THEN <<>> ELSE <<identity>>
        useShortOutput == opt.OutputFormat = "name" \/ opt.OutputFormat = ""
    IN  IF ~opt.DryRun /\ co.err # NilErr
        THEN [err |-> co.err, create |-> called, success |-> <<>>, printer |-> <<>>]
        ELSE IF useShortOutput
        THEN [err |-> NilErr, create |-> called,
              success |-> <<SuccessCall(useShortOutput, opt, actualIdentity)>>,
              printer |-> <<>>]
        ELSE [err |-> po, create |-> called, success |-> <<>>,
              printer |-> <<PrinterCall(opt, actualIdentity)>>]

\* (o *CreateIdentityOptions) Run(): the error returned and, in call order,
\* the arguments of every Create, PrintSuccess and Printer call it makes.
\* co is what Create answers when called, po what the Printer answers.
Run(opt, co, po) ==
    LET identity == LocalIdentity(opt)
        actualIdentity == IF opt.DryRun THEN identity ELSE co.obj
        called == IF opt.DryRun THEN <<>> ELSE <<identity>>
        useShortOutput == opt.OutputFormat = "name"
    IN  IF ~opt.DryRun /\ co.err # NilErr
        THEN [err |-> co.err, create |-> called, success |-> <<>>, printer |-> <<>>]
        ELSE IF useShortOutput \/ opt.OutputFormat = ""
        THEN [err |-> NilErr, create |-> called,
              success |-> <<SuccessCall(useShortOutput, opt, actualIdentity)>>,
              printer |-> <<>>]
        ELSE [err |-> po, create |-> called, success |-> <<>>,
              printer |-> <<PrinterCall(opt, actualIdentity)>>]

\* ------------------------------------------------------ command pipeline
\* Run is called before Validate
NextPc_runfirst(method, e) ==
    IF e # NilErr THEN "exit"
    ELSE IF method = "Complete" THEN "run"
    ELSE IF method = "Run" THEN "validate"
    ELSE "done"

\* the cobra Run closure: Complete, Validate, Run, each wrapped in CheckErr,
\* which ends the process on a non-nil error
NextPc(method, e) ==
    IF e # NilErr THEN "exit"
    ELSE IF method = "Complete" THEN "validate"
    ELSE IF method = "Validate" THEN "run"
    ELSE "done"

VARIABLES
    pc,             \* "complete", "validate", "run", "done", "exit"
    stage,          \* the method that returned last: "new", "Complete", "Validate", "Run"
    args,           \* positional arguments
    flagDryRun,     \* --dry-run
    flagOutput,     \* --output
    factory,        \* how the factory answers: "ok", "configErr", "clientErr"
    o,              \* the CreateIdentityOptions
    err,            \* the error the last method returned
    createCalls,    \* arguments of the Create calls so far
    createRets,     \* what those calls returned
    successCalls,   \* arguments of the PrintSuccess calls so far
    printerCalls,   \* arguments of the Printer calls so far
    printerRets     \* what those calls returned

vars == <<pc, stage, args, flagDryRun, flagOutput, factory, o, err,
          createCalls, createRets, successCalls, printerCalls, printerRets>>

\* NewCmdCreateIdentity followed by the framework's flag and argument parsing
Init ==
    /\ pc = "complete"
    /\ stage = "new"
    /\ args \in ArgLists
    /\ flagDryRun \in BOOLEAN
    /\ flagOutput \in OutputFormats
    /\ factory \in {"ok", "configErr", "clientErr"}
    /\ \E out \in {"nil", "writer"} : o = NewOptions(out)
    /\ err = NilErr
    /\ createCalls = <<>>
    /\ createRets = <<>>
    /\ successCalls = <<>>
    /\ printerCalls = <<>>
    /\ printerRets = <<>>

\* an options value built field by field by a caller, about to be validated
InitDirect ==
    /\ pc = "validate"
    /\ stage = "new"
    /\ args = <<>>
    /\ flagDryRun = FALSE
    /\ flagOutput = ""
    /\ factory = "ok"
    /\ o \in [ProviderName : StringsUpTo(MaxShortLen),
              ProviderUserName : StringsUpTo(MaxShortLen),
              IdentityClient : {"nil", "client"},
              DryRun : BOOLEAN,
              OutputFormat : OutputFormats,
              Out : {"nil", "writer"},
              Printer : {"nil", "printer"}]
    /\ err = NilErr
    /\ createCalls = <<>>
    /\ createRets = <<>>
    /\ successCalls = <<>>
    /\ printerCalls = <<>>
    /\ printerRets = <<>>

\* cmdutil.CheckErr(o.Complete(cmd, f, args))
DoComplete ==
    /\ pc = "complete"
    /\ LET r == Complete(o, args, flagDryRun, flagOutput, factory) IN
        /\ o' = r.o
        /\ err' = r.err
        /\ pc' = NextPc("Complete", r.err)
    /\ stage' = "Complete"
    /\ UNCHANGED <<args, flagDryRun, flagOutput, factory,
                   createCalls, createRets, successCalls, printerCalls, printerRets>>

\* cmdutil.CheckErr(o.Validate())
DoValidate ==
    /\ pc = "validate"
    /\ LET r == Validate(o) IN
        /\ o' = r.o
        /\ err' = r.err
        /\ pc' = NextPc("Validate", r.err)
    /\ stage' = "Validate"
    /\ UNCHANGED <<args, flagDryRun, flagOutput, factory,
                   createCalls, createRets, successCalls, printerCalls, printerRets>>

\* cmdutil.CheckErr(o.Run())
DoRun ==
    /\ pc = "run"
    /\ \E co \in CreateOutcomes(LocalIdentity(o)), po \in PrinterOutcomes :
        LET r == Run(o, co, po) IN
        /\ err' = r.err
        /\ createCalls' = createCalls \o r.create
        /\ createRets' = createRets \o [i \in 1..Len(r.create) |-> co]
        /\ successCalls' = successCalls \o r.success
        /\ printerCalls' = printerCalls \o r.printer
        /\ printerRets' = printerRets \o [i \in 1..Len(r.printer) |-> po]
        /\ pc' = NextPc("Run", r.err)
    /\ stage' = "Run"
    /\ UNCHANGED <<args, flagDryRun, flagOutput, factory, o>>

Next == DoComplete \/ DoValidate \/ DoRun

Spec == Init /\ [][Next]_vars

NextDirect == DoValidate \/ DoRun

SpecDirect == InitDirect /\ [][NextDirect]_vars

\* ------------------------------------------------------------ properties
ColonIdx(s) == {i \in 1..Len(s) : s[i] = ":"}
TheColon(s) == CHOOSE i \in ColonIdx(s) : TRUE

\* Run got as far as its output step
PastCreate == stage = "Run" /\ (o.DryRun \/ (Len(createRets) = 1 /\ createRets[1].err = NilErr))
\* the object Run has in hand at its output step
Resulting == IF o.DryRun
             THEN [ProviderName |-> o.ProviderName, ProviderUserName |-> o.ProviderUserName,
                   UID |-> ""]
             ELSE createRets[1].obj
Printed == {successCalls[i].obj : i \in 1..Len(successCalls)}
           \cup {printerCalls[i].obj : i \in 1..Len(printerCalls)}

\* C1: a non-dry-run Run calls Create exactly once, with the option's
\* ProviderName and ProviderUserName; when Create fails Run returns that
\* error and prints nothing; when Create succeeds the printed object is the
\* returned one; Run is over afterwards, so Create is not called again.
C1_CreateExactlyOnce ==
    (stage = "Run" /\ ~o.DryRun) =>
        /\ pc \in {"done", "exit"}
        /\ Len(createCalls) = 1
        /\ Len(createRets) = 1
        /\ createCalls[1].ProviderName = o.ProviderName
        /\ createCalls[1].ProviderUserName = o.ProviderUserName
        /\ (createRets[1].err # NilErr =>
                /\ err = createRets[1].err
                /\ successCalls = <<>>
                /\ printerCalls = <<>>)
        /\ (createRets[1].err = NilErr => Printed = {createRets[1].obj})

C1_Witness ==
    /\ stage = "Run"
    /\ ~o.DryRun
    /\ Len(createCalls) = 1
    /\ createRets[1].err \in CreateErrors
    /\ err = createRets[1].err

\* C2: a dry-run Run never calls Create, never returns a remote-client
\* error, and hands the locally built, unpersisted identity to the output step.
C2_DryRunSkipsCreate ==
    (stage = "Run" /\ o.DryRun) =>
        /\ createCalls = <<>>
        /\ err \notin CreateErrors
        /\ Printed = {[ProviderName |-> o.ProviderName,
                       ProviderUserName |-> o.ProviderUserName, UID |-> ""]}

C2_Witness ==
    /\ stage = "Run"
    /\ o.DryRun
    /\ flagDryRun
    /\ Len(printerCalls) = 1
    /\ printerCalls[1].obj.UID = ""

\* C3: when Complete or Validate returns an error the command stops:
\* Create has not been called and nothing has been printed, and never will be.
C3_ErrorStopsPipeline ==
    (stage \in {"Complete", "Validate"} /\ err # NilErr) =>
        /\ pc = "exit"
        /\ createCalls = <<>>
        /\ successCalls = <<>>
        /\ printerCalls = <<>>

C3_Witness ==
    /\ stage = "Validate"
    /\ err = ErrOut
    /\ pc = "exit"
    /\ createCalls = <<>>
    /\ ~flagDryRun

\* C4: one argument P:U, P and U non-empty, no further colon, working client
\* configuration: Complete succeeds with ProviderName = P, ProviderUserName = U.
C4_WellFormedParses ==
    (/\ stage = "Complete"
     /\ factory = "ok"
     /\ Len(args) = 1
     /\ Cardinality(ColonIdx(args[1])) = 1
     /\ TheColon(args[1]) \notin {1, Len(args[1])}) =>
        /\ err = NilErr
        /\ o.ProviderName = SubSeq(args[1], 1, TheColon(args[1]) - 1)
        /\ o.ProviderUserName = SubSeq(args[1], TheColon(args[1]) + 1, Len(args[1]))

C4_Witness ==
    /\ stage = "Complete"
    /\ args = << <<"p", "u", ":", "u", "p">> >>
    /\ err = NilErr
    /\ o.ProviderName = <<"p", "u">>
    /\ o.ProviderUserName = <<"u", "p">>

\* C5: with exactly one argument Complete returns the format error iff the
\* argument does not hold exactly one colon, and on that error leaves
\* ProviderName, ProviderUserName, the client handle and the printer as they were.
C5_FormatErrorIff ==
    [][(pc = "complete" /\ Len(args) = 1) =>
        /\ (err' = ErrFormat) <=> (Cardinality(ColonIdx(args[1])) # 1)
        /\ (err' = ErrFormat =>
                /\ o'.ProviderName = o.ProviderName
                /\ o'.ProviderUserName = o.ProviderUserName
                /\ o'.IdentityClient = o.IdentityClient
                /\ o'.Printer = o.Printer)]_vars

C5_Witness ==
    /\ stage = "Complete"
    /\ args = << <<"p", ":", "u", ":", "p">> >>
    /\ err = ErrFormat
    /\ o.ProviderName = <<>>

\* C6: with zero arguments Complete returns the "identity name ... required"
\* error, with two or more the "exactly one argument" error; either way no
\* option field changes.
C6_ArgCountError ==
    [][(pc = "complete" /\ Len(args) # 1) =>
        /\ Len(args) = 0 =>
             err'.msg = "identity name in the format <PROVIDER_NAME>:<PROVIDER_USER_NAME> is required"
        /\ Len(args) >= 2 =>
             /\ err'.msg = "exactly one argument (username) is supported, not: %v"
             /\ err'.args = args
        /\ o' = o]_vars

C6_Witness ==
    /\ stage = "Complete"
    /\ Len(args) = 2
    /\ args[1] = <<"p">>
    /\ args[2] = <<":">>
    /\ err.msg = "exactly one argument (username) is supported, not: %v"

\* C7: Validate returns an error iff ProviderName is empty, ProviderUserName
\* is empty, or the client, the output sink or the printer is unset; it
\* never changes the options.
C7_ValidateIff ==
    [][pc = "validate" =>
        /\ (err' # NilErr) <=> \/ o.ProviderName = <<>>
                               \/ o.ProviderUserName = <<>>
                               \/ o.IdentityClient = "nil"
                               \/ o.Out = "nil"
                               \/ o.Printer = "nil"
        /\ o' = o]_vars

C7_Witness ==
    /\ stage = "Validate"
    /\ o.ProviderName # <<>>
    /\ o.ProviderUserName # <<>>
    /\ o.IdentityClient = "client"
    /\ o.Out = "nil"
    /\ o.Printer = "printer"
    /\ err # NilErr

\* C8: a Run that reaches its output step makes exactly one output call: for
\* format "" or "name" one PrintSuccess call with verb "created" and the
\* dry-run flag, no Printer call, and nil is returned; for any other format
\* one Printer call with the resulting object, no PrintSuccess call, and the
\* Printer's answer is returned.
C8_ExactlyOneOutput ==
    PastCreate =>
        IF o.OutputFormat \in {"", "name"}
        THEN /\ Len(successCalls) = 1
             /\ successCalls[1].verb = "created"
             /\ successCalls[1].dryRun = o.DryRun
             /\ successCalls[1].obj = Resulting
             /\ printerCalls = <<>>
             /\ err = NilErr
        ELSE /\ Len(printerCalls) = 1
             /\ Len(printerRets) = 1
             /\ printerCalls[1].obj = Resulting
             /\ successCalls = <<>>
             /\ err = printerRets[1]

C8_Witness ==
    /\ PastCreate
    /\ o.OutputFormat = "json"
    /\ Len(printerCalls) = 1
    /\ printerRets = <<ErrPrint>>
    /\ err = ErrPrint

\* C9 as stated: for format "name" and for the empty format alike, Run
\* passes the short-output flag as true to PrintSuccess.
C9_ShortFlagAlwaysTrue ==
    (PastCreate /\ o.OutputFormat \in {"", "name"}) =>
        /\ Len(successCalls) = 1
        /\ successCalls[1].short = TRUE

\* C9 amended: for format "name" and for the empty format alike Run calls
\* PrintSuccess once; the short-output flag it passes is true for "name" and
\* false for the empty format.
C9_ShortFlagOnlyForName ==
    (PastCreate /\ o.OutputFormat \in {"", "name"}) =>
        /\ Len(successCalls) = 1
        /\ successCalls[1].short = (o.OutputFormat = "name")

C9_Witness ==
    /\ PastCreate
    /\ o.OutputFormat = ""
    /\ Len(successCalls) = 1
    /\ successCalls[1].short = FALSE

\* C10: one argument with exactly one colon and an empty side passes
\* Complete's format check, which stores both parts; Validate then rejects
\* it, with the provider-name error when the left side is empty and the
\* provider-user-name error otherwise; Run is not reached and Create is
\* never called.
C10_TwoStageValidation ==
    (/\ Len(args) = 1
     /\ Cardinality(ColonIdx(args[1])) = 1
     /\ TheColon(args[1]) \in {1, Len(args[1])}) =>
        /\ stage = "Complete" =>
             /\ err # ErrFormat
             /\ factory = "ok" => (err = NilErr /\ pc = "validate")
             /\ o.ProviderName = SubSeq(args[1], 1, TheColon(args[1]) - 1)
             /\ o.ProviderUserName = SubSeq(args[1], TheColon(args[1]) + 1, Len(args[1]))
        /\ stage = "Validate" =>
             /\ pc = "exit"
             /\ err = IF TheColon(args[1]) = 1 THEN ErrProviderName ELSE ErrProviderUserName
        /\ stage # "Run"
        /\ createCalls = <<>>

C10_Witness ==
    /\ stage = "Validate"
    /\ args = << <<"p", "u", ":">> >>
    /\ o.ProviderName = <<"p", "u">>
    /\ o.ProviderUserName = <<>>
    /\ err = ErrProviderUserName
    /\ pc = "exit"

====
